---- MODULE Spec2Model ----
(***************************************************************************)
(* A model of src/perception.py: the rover's per-frame perception step.    *)
(*                                                                         *)
(* Number representation.  rover_coords computes in floating point and,    *)
(* for an image of odd width, yields half-integral y coordinates           *)
(* (shape[1]/2 is a true division).  Rover-centric coordinates are         *)
(* therefore kept in HALF pixels (an integer n stands for n/2); the        *)
(* translated coordinates of translate_pix are kept as numerators over the *)
(* denominator 2*scale.  Yaw is restricted to quarter turns, where cos and *)
(* sin are -1, 0 or 1, and positions to integers; for the coordinate       *)
(* ranges used here the floating-point results of the source agree with    *)
(* this exact arithmetic after np.int_ (with scale 1 only yaw = 0 is       *)
(* drawn, where the floating-point rotation is exact).                     *)
(*                                                                         *)
(* Roll and pitch are kept in tenths of a degree (20 stands for 2.0).      *)
(*                                                                         *)
(* Rover.worldmap is allocated by the caller of perception_step, which     *)
(* also fixes its element type; the cells are modelled as unbounded        *)
(* numbers (a floating-point accumulator holds these multiples of 255      *)
(* exactly).                                                               *)
(***************************************************************************)
EXTENDS Integers, Sequences, FiniteSets

VARIABLES
    img,            \* Rover.img: the camera frame, by the rectified pixel it lands on
    pos,            \* Rover.pos
    yaw,            \* Rover.yaw (degrees)
    roll,           \* Rover.roll (tenths of a degree)
    pitch,          \* Rover.pitch (tenths of a degree)
    worldmap,       \* Rover.worldmap[y][x][channel]
    vision_image,   \* Rover.vision_image[pixel][channel]
    nav_dists,      \* Rover.nav_dists
    nav_angles,     \* Rover.nav_angles
    rocks_dists,    \* Rover.rocks_dists
    rocks_angles,   \* Rover.rocks_angles
    calls,          \* history: number of perception_step calls so far
    worldmap_before,\* history: Rover.worldmap at the entry of the latest call
    rerun,          \* history: the latest call repeated the call before it
                    \*   (same frame and pose, stability gate open in both)
    fn_pc,          \* pure-function harness: which function is to be applied
    rc_in,          \* rover_coords: argument (a binary image)
    rc_out,         \* rover_coords: result
    pw_in,          \* pix_to_world: arguments
    pw_out,         \* pix_to_world: result
    th_in,          \* color_thresh / obstacle_thresh: arguments
    th_out          \* color_thresh / obstacle_thresh: results

rover_vars == <<img, pos, yaw, roll, pitch, worldmap, vision_image, nav_dists,
                nav_angles, rocks_dists, rocks_angles, calls, worldmap_before, rerun>>
fn_vars == <<fn_pc, rc_in, rc_out, pw_in, pw_out, th_in, th_out>>
vars == <<rover_vars, fn_vars>>

-----------------------------------------------------------------------------
(* Bounds of the model *)

\* Rover.img.shape[0]: image height in pixels
ImgH == 1
\* Rover.img.shape[1]: image width in pixels
ImgW == 3
\* Rover.worldmap.shape[0]
WorldSize == 2
\* perception_step calls in one behaviour
MaxCalls == 2
\* largest rover-centric coordinate (in half pixels) handed to pix_to_world directly
MaxCoord2 == 3

-----------------------------------------------------------------------------
(* Images *)

Pixels == (0 .. ImgH - 1) \X (0 .. ImgW - 1)
Channels == {0, 1, 2}

Black == <<0, 0, 0>>
Bright == <<200, 200, 200>>
Yellow == <<150, 150, 25>>
Grey == <<160, 160, 160>>
Mixed == <<200, 100, 200>>

\* colours of the frames perception_step is run on
Palette == {Black, Bright, Yellow}
\* colours of the frames the classifiers are compared on
ThreshPalette == {Black, Bright, Yellow, Grey, Mixed}
\* the default rgb_thresh of color_thresh and obstacle_thresh
DefaultThresh == <<160, 160, 160>>
Thresholds == {DefaultThresh, <<100, 200, 160>>}

\* numpy's row-major order of the pixels
PixelAt(i) == <<(i - 1) \div ImgW, (i - 1) % ImgW>>
PixelSeq == [i \in 1 .. ImgH * ImgW |-> PixelAt(i)]

Masks == [Pixels -> {0, 1}]

\* ndarray.nonzero(): the active pixels, in row-major order
nonzero(binary_img) == SelectSeq(PixelSeq, LAMBDA p : binary_img[p] # 0)

color_thresh(image, rgb_thresh) ==
    [p \in Pixels |->
        IF /\ image[p][1] > rgb_thresh[1]
           /\ image[p][2] > rgb_thresh[2]
           /\ image[p][3] > rgb_thresh[3]
        THEN 1 ELSE 0]

\* obstacle_thresh with <= for < : a pixel at the threshold counts as an obstacle
obstacle_thresh_le(image, rgb_thresh) ==
    [p \in Pixels |->
        IF /\ image[p][1] <= rgb_thresh[1]
           /\ image[p][2] <= rgb_thresh[2]
           /\ image[p][3] <= rgb_thresh[3]
        THEN 1 ELSE 0]

obstacle_thresh(image, rgb_thresh) ==
    [p \in Pixels |->
        IF /\ image[p][1] < rgb_thresh[1]
           /\ image[p][2] < rgb_thresh[2]
           /\ image[p][3] < rgb_thresh[3]
        THEN 1 ELSE 0]

rock_thresh(image) ==
    LET threshold_low == <<100, 100, 20>>
        threshold_high == <<255, 255, 30>>
    IN  [p \in Pixels |->
            IF /\ image[p][1] > threshold_low[1] /\ image[p][1] < threshold_high[1]
               /\ image[p][2] > threshold_low[2] /\ image[p][2] < threshold_high[2]
               /\ image[p][3] > threshold_low[3] /\ image[p][3] < threshold_high[3]
            THEN 1 ELSE 0]

-----------------------------------------------------------------------------
(* Coordinate conversions *)

\* rover-centric coordinates of the active pixels, in half pixels:
\* x_pixel = -(ypos - shape[0]), y_pixel = -(xpos - shape[1]/2)
rover_coords(binary_img) ==
    LET nz == nonzero(binary_img)
        x_pixel == [i \in 1 .. Len(nz) |-> -(2 * nz[i][1] - 2 * ImgH)]
        y_pixel == [i \in 1 .. Len(nz) |-> -(2 * nz[i][2] - ImgW)]
    IN  <<x_pixel, y_pixel>>

RECURSIVE GCD(_, _)
GCD(a, b) == IF b = 0 THEN a ELSE GCD(b, a % b)

Abs(n) == IF n < 0 THEN -n ELSE n

\* np.arctan2(y, x) as the direction it is the angle of: the pair <<y, x>>
\* divided by its greatest common divisor (arctan2(0, 0) is 0, the angle of <<0, 1>>)
arctan2(y, x) ==
    IF x = 0 /\ y = 0 THEN <<0, 1>>
    ELSE LET g == GCD(Abs(y), Abs(x)) IN <<y \div g, x \div g>>

\* np.sqrt(x**2 + y**2): the distance d is kept as the radicand (2d)^2
to_polar_coords(x_pixel, y_pixel) ==
    LET dist == [i \in 1 .. Len(x_pixel) |-> x_pixel[i] * x_pixel[i] + y_pixel[i] * y_pixel[i]]
        angles == [i \in 1 .. Len(x_pixel) |-> arctan2(y_pixel[i], x_pixel[i])]
    IN  <<dist, angles>>

\* np.cos and np.sin of yaw * pi / 180 at the quarter turns
Yaws == {0, 90, 180, 270}
cos(deg) == CASE deg = 0 -> 1 [] deg = 90 -> 0 [] deg = 180 -> -1 [] deg = 270 -> 0
sin(deg) == CASE deg = 0 -> 0 [] deg = 90 -> 1 [] deg = 180 -> 0 [] deg = 270 -> -1

rotate_pix(xpix, ypix, yw) ==
    LET xpix_rotated == [i \in 1 .. Len(xpix) |-> (xpix[i] * cos(yw)) - (ypix[i] * sin(yw))]
        ypix_rotated == [i \in 1 .. Len(xpix) |-> (xpix[i] * sin(yw)) + (ypix[i] * cos(yw))]
    IN  <<xpix_rotated, ypix_rotated>>

\* (xpix_rot / scale) + xpos, as a numerator over the denominator 2 * sc
\* (xpix_rot is in half pixels)
translate_pix(xpix_rot, ypix_rot, xpos, ypos, sc) ==
    LET xpix_translated == [i \in 1 .. Len(xpix_rot) |-> xpix_rot[i] + 2 * sc * xpos]
        ypix_translated == [i \in 1 .. Len(ypix_rot) |-> ypix_rot[i] + 2 * sc * ypos]
    IN  <<xpix_translated, ypix_translated>>

\* np.int_ replaced by rounding to the nearest integer (np.rint)
np_int_round(num, den) == (2 * num + den) \div (2 * den)

\* np.int_ of the float num / den (den > 0): the fraction is dropped, toward zero
np_int(num, den) == IF num >= 0 THEN num \div den ELSE -((-num) \div den)

\* np.clip without its upper limit
np_clip_lower(v, lo, hi) == IF v < lo THEN lo ELSE v

\* np.clip(v, lo, hi)
np_clip(v, lo, hi) == IF v < lo THEN lo ELSE IF v > hi THEN hi ELSE v

\* pix_to_world returning its two results in the wrong order
pix_to_world_swapped(xpix, ypix, xpos, ypos, yw, world_size, sc) ==
    LET rot == rotate_pix(xpix, ypix, yw)
        tran == translate_pix(rot[1], rot[2], xpos, ypos, sc)
        x_pix_world == [i \in 1 .. Len(tran[1]) |->
                           np_clip(np_int(tran[1][i], 2 * sc), 0, world_size - 1)]
        y_pix_world == [i \in 1 .. Len(tran[2]) |->
                           np_clip(np_int(tran[2][i], 2 * sc), 0, world_size - 1)]
    IN  <<y_pix_world, x_pix_world>>

pix_to_world(xpix, ypix, xpos, ypos, yw, world_size, sc) ==
    LET rot == rotate_pix(xpix, ypix, yw)
        tran == translate_pix(rot[1], rot[2], xpos, ypos, sc)
        x_pix_world == [i \in 1 .. Len(tran[1]) |->
                           np_clip(np_int(tran[1][i], 2 * sc), 0, world_size - 1)]
        y_pix_world == [i \in 1 .. Len(tran[2]) |->
                           np_clip(np_int(tran[2][i], 2 * sc), 0, world_size - 1)]
    IN  <<x_pix_world, y_pix_world>>

-----------------------------------------------------------------------------
(* The perspective transform *)

\* The rectified pixels the fixed source/destination quadrilaterals map into the
\* camera frame; the rover-side corner of the rectified image lies outside it.
InView == {p \in Pixels : ~(p[1] = ImgH - 1 /\ p[2] = 0)}

\* cv2.warpPerspective of the frame and of an all-ones image: pixels that come
\* from outside the frame get the constant border value 0
perspect_transform(image) ==
    LET warped == [p \in Pixels |-> IF p \in InView THEN image[p] ELSE Black]
        mask == [p \in Pixels |-> IF p \in InView THEN 1 ELSE 0]
    IN  <<warped, mask>>

-----------------------------------------------------------------------------
(* perception_step *)

\* world scale of perception_step
scale == 30

Cells == (0 .. WorldSize - 1) \X (0 .. WorldSize - 1) \X Channels

\* the stability gate with <= 2.0 for < 2.0
stable_le(rl, pt) == (rl <= 20 \/ rl > 3580) /\ (pt <= 20 \/ pt > 3580)

\* The stability gate (roll and pitch in tenths of a degree):
\* (roll < 2.0 or roll > 358) and (pitch < 2.0 or pitch > 358)
stable(rl, pt) == (rl < 20 \/ rl > 3580) /\ (pt < 20 \/ pt > 3580)

\* the in-place add as np.add.at: every occurrence of a cell adds w
iadd_each(wm, ys, xs, ch, w) ==
    [c \in DOMAIN wm |->
        IF c[3] = ch
        THEN wm[c] + w * Cardinality({i \in 1 .. Len(ys) : ys[i] = c[1] /\ xs[i] = c[2]})
        ELSE wm[c]]

\* the in-place add as a plain assignment (= for +=)
iadd_assign(wm, ys, xs, ch, w) ==
    [c \in DOMAIN wm |->
        IF c[3] = ch /\ \E i \in 1 .. Len(ys) : ys[i] = c[1] /\ xs[i] = c[2]
        THEN w ELSE wm[c]]

\* worldmap[ys, xs, ch] += w with index arrays: numpy reads the indexed cells,
\* adds w and writes the sums back, so a cell indexed several times is
\* increased once
iadd(wm, ys, xs, ch, w) ==
    [c \in DOMAIN wm |->
        IF c[3] = ch /\ \E i \in 1 .. Len(ys) : ys[i] = c[1] /\ xs[i] = c[2]
        THEN wm[c] + w ELSE wm[c]]

\* step 3 with the obstacle mask restricted to the camera's view
classify_masked(warped, mask) ==
    [terrain |-> color_thresh(warped, DefaultThresh),
     obstacle |-> [p \in Pixels |-> obstacle_thresh(warped, DefaultThresh)[p] * mask[p]],
     rocks |-> rock_thresh(warped)]

\* step 3: the three classifiers on the rectified frame (the validity mask of
\* perspect_transform is not used)
classify(warped, mask) ==
    [terrain |-> color_thresh(warped, DefaultThresh),
     obstacle |-> obstacle_thresh(warped, DefaultThresh),
     rocks |-> rock_thresh(warped)]

\* step 4 writing 255 at the active pixels only, the others keeping their value
update_vision_image_active(vi, thresh_terrain, thresh_obstacle, thresh_rocks) ==
    [p \in Pixels |->
        [ch \in Channels |->
            CASE ch = 2 -> IF thresh_terrain[p] = 1 THEN 255 ELSE vi[p][ch]
              [] ch = 0 -> IF thresh_obstacle[p] = 1 THEN 255 ELSE vi[p][ch]
              [] ch = 1 -> IF thresh_rocks[p] = 1 THEN 255 ELSE vi[p][ch]]]

\* step 4: the overlay
update_vision_image(vi, thresh_terrain, thresh_obstacle, thresh_rocks) ==
    [p \in Pixels |->
        [ch \in Channels |->
            CASE ch = 2 -> thresh_terrain[p] * 255
              [] ch = 0 -> thresh_obstacle[p] * 255
              [] ch = 1 -> thresh_rocks[p] * 255]]

\* step 7 also clearing the obstacle channel where terrain is seen
update_worldmap_clear(wm, rl, pt, obstacle_world, rocks_world, world) ==
    IF stable(rl, pt)
    THEN LET wm0 == iadd(wm, obstacle_world[2], obstacle_world[1], 0, 255)
             wm1 == iadd(wm0, rocks_world[2], rocks_world[1], 1, 255)
             wm2 == iadd(wm1, world[2], world[1], 2, 255)
         IN  [c \in DOMAIN wm2 |->
                 IF c[3] = 0 /\ \E i \in 1 .. Len(world[1]) :
                                    world[2][i] = c[1] /\ world[1][i] = c[2]
                 THEN 0 ELSE wm2[c]]
    ELSE wm

\* step 7: the gated world-map update
update_worldmap(wm, rl, pt, obstacle_world, rocks_world, world) ==
    IF stable(rl, pt)
    THEN LET wm0 == iadd(wm, obstacle_world[2], obstacle_world[1], 0, 255)
             wm1 == iadd(wm0, rocks_world[2], rocks_world[1], 1, 255)
         IN  iadd(wm1, world[2], world[1], 2, 255)
    ELSE wm

\* steps 5 and 6 for one mask: rover-centric and world coordinates
world_of(binary_img, ps, yw) ==
    LET rc == rover_coords(binary_img)
    IN  pix_to_world(rc[1], rc[2], ps[1], ps[2], yw, WorldSize, scale)

Frames == [InView -> Palette]
\* rover positions: the diagonal of the map
Positions == {<<i, i>> : i \in 0 .. WorldSize - 1}
\* roll and pitch, in tenths of a degree: 1.0, 2.0, 358.0 and 359.0
Attitudes == {10, 20, 3580, 3590}

ZeroMap == [c \in Cells |-> 0]

\* One call of perception_step on the frame and pose the telemetry supplied
perception_step(image, ps, yw, rl, pt) ==
    /\ calls < MaxCalls
    /\ LET wp == perspect_transform(image)
           th == classify(wp[1], wp[2])
           rc == rover_coords(th.terrain)
           rc_rocks == rover_coords(th.rocks)
           polar == to_polar_coords(rc[1], rc[2])
           polar_rocks == to_polar_coords(rc_rocks[1], rc_rocks[2])
       IN  /\ vision_image' = update_vision_image(vision_image, th.terrain, th.obstacle, th.rocks)
           /\ worldmap' = update_worldmap(worldmap, rl, pt,
                                          world_of(th.obstacle, ps, yw),
                                          world_of(th.rocks, ps, yw),
                                          world_of(th.terrain, ps, yw))
           /\ nav_dists' = polar[1]
           /\ nav_angles' = polar[2]
           /\ rocks_dists' = polar_rocks[1]
           /\ rocks_angles' = polar_rocks[2]
    /\ img' = image /\ pos' = ps /\ yaw' = yw /\ roll' = rl /\ pitch' = pt
    /\ calls' = calls + 1
    /\ worldmap_before' = worldmap
    /\ rerun' = (/\ calls > 0
                 /\ image = img /\ ps = pos /\ yw = yaw
                 /\ stable(roll, pitch) /\ stable(rl, pt))
    /\ UNCHANGED fn_vars

\* The Rover before the first frame: zeroed maps, no cues
RoverInit ==
    /\ img = [p \in InView |-> Black]
    /\ pos = <<0, 0>>
    /\ yaw = 0
    /\ roll = 0
    /\ pitch = 0
    /\ worldmap = ZeroMap
    /\ vision_image = [p \in Pixels |-> [ch \in Channels |-> 0]]
    /\ nav_dists = << >>
    /\ nav_angles = << >>
    /\ rocks_dists = << >>
    /\ rocks_angles = << >>
    /\ calls = 0
    /\ worldmap_before = ZeroMap
    /\ rerun = FALSE

FnIdle ==
    /\ fn_pc = "none"
    /\ rc_in = [p \in Pixels |-> 0]
    /\ rc_out = << << >>, << >> >>
    /\ pw_in = [xpix |-> << >>, ypix |-> << >>, xpos |-> 0, ypos |-> 0, yaw |-> 0,
                world_size |-> WorldSize, scale |-> scale]
    /\ pw_out = << << >>, << >> >>
    /\ th_in = [img |-> [p \in Pixels |-> Black], rgb_thresh |-> DefaultThresh]
    /\ th_out = << [p \in Pixels |-> 0], [p \in Pixels |-> 0] >>

Init == RoverInit /\ FnIdle

Next ==
    \E image \in Frames, ps \in Positions, yw \in Yaws, rl \in Attitudes, pt \in Attitudes :
        perception_step(image, ps, yw, rl, pt)

Spec == Init /\ [][Next]_vars

-----------------------------------------------------------------------------
(* The pure functions, applied to arguments drawn in the initial state *)

Coords2 == -MaxCoord2 .. MaxCoord2
PointSeqs == {<< <<>>, <<>> >>} \cup {<< <<x>>, <<y>> >> : x \in Coords2, y \in Coords2}
PosRange == -1 .. WorldSize + 1
\* yaw and scale: any quarter turn at the scale of perception_step, and yaw 0
\* at the scales 1 and 2
YawScales == {<<yw, scale>> : yw \in Yaws} \cup {<<0, 1>>, <<0, 2>>}

PixToWorldArgs ==
    {[xpix |-> pts[1], ypix |-> pts[2], xpos |-> px, ypos |-> py, yaw |-> ys[1],
      world_size |-> WorldSize, scale |-> ys[2]] :
        pts \in PointSeqs, px \in PosRange, py \in PosRange, ys \in YawScales}

ThreshArgs == [img : [Pixels -> ThreshPalette], rgb_thresh : Thresholds]

FnInit ==
    \/ /\ fn_pc = "pix_to_world"
       /\ pw_in \in PixToWorldArgs
       /\ rc_in = [p \in Pixels |-> 0]
       /\ rc_out = << << >>, << >> >>
       /\ pw_out = << << >>, << >> >>
       /\ th_in = [img |-> [p \in Pixels |-> Black], rgb_thresh |-> DefaultThresh]
       /\ th_out = << [p \in Pixels |-> 0], [p \in Pixels |-> 0] >>
    \/ /\ fn_pc = "rover_coords"
       /\ rc_in \in Masks
       /\ rc_out = << << >>, << >> >>
       /\ pw_in = [xpix |-> << >>, ypix |-> << >>, xpos |-> 0, ypos |-> 0, yaw |-> 0,
                   world_size |-> WorldSize, scale |-> scale]
       /\ pw_out = << << >>, << >> >>
       /\ th_in = [img |-> [p \in Pixels |-> Black], rgb_thresh |-> DefaultThresh]
       /\ th_out = << [p \in Pixels |-> 0], [p \in Pixels |-> 0] >>
    \/ /\ fn_pc = "thresh"
       /\ th_in \in ThreshArgs
       /\ th_out = << [p \in Pixels |-> 0], [p \in Pixels |-> 0] >>
       /\ rc_in = [p \in Pixels |-> 0]
       /\ rc_out = << << >>, << >> >>
       /\ pw_in = [xpix |-> << >>, ypix |-> << >>, xpos |-> 0, ypos |-> 0, yaw |-> 0,
                   world_size |-> WorldSize, scale |-> scale]
       /\ pw_out = << << >>, << >> >>

\* rover_coords on a binary image; its result is handed to pix_to_world with
\* yaw = 0, position (0, 0) and scale = 1
ApplyRoverCoords ==
    /\ fn_pc = "rover_coords"
    /\ rc_out' = rover_coords(rc_in)
    /\ pw_in' = [xpix |-> rc_out'[1], ypix |-> rc_out'[2], xpos |-> 0, ypos |-> 0,
                 yaw |-> 0, world_size |-> WorldSize, scale |-> 1]
    /\ fn_pc' = "to_world"
    /\ UNCHANGED <<rc_in, pw_out, th_in, th_out, rover_vars>>

ApplyPixToWorld ==
    /\ fn_pc \in {"pix_to_world", "to_world"}
    /\ pw_out' = pix_to_world(pw_in.xpix, pw_in.ypix, pw_in.xpos, pw_in.ypos, pw_in.yaw,
                              pw_in.world_size, pw_in.scale)
    /\ fn_pc' = IF fn_pc = "to_world" THEN "done_round_trip" ELSE "done_pix_to_world"
    /\ UNCHANGED <<rc_in, rc_out, pw_in, th_in, th_out, rover_vars>>

ApplyThresh ==
    /\ fn_pc = "thresh"
    /\ th_out' = <<color_thresh(th_in.img, th_in.rgb_thresh),
                   obstacle_thresh(th_in.img, th_in.rgb_thresh)>>
    /\ fn_pc' = "done_thresh"
    /\ UNCHANGED <<rc_in, rc_out, pw_in, pw_out, th_in, rover_vars>>

InitFn == RoverInit /\ FnInit

NextFn == ApplyRoverCoords \/ ApplyPixToWorld \/ ApplyThresh

SpecFn == InitFn /\ [][NextFn]_vars

-----------------------------------------------------------------------------
(* What the latest perception_step call saw, recomputed from the Rover fields *)

Warped == perspect_transform(img)[1]

\* the mask of each world-map channel's class: obstacle, rock, terrain
ClassMask(ch) ==
    CASE ch = 0 -> obstacle_thresh(Warped, DefaultThresh)
      [] ch = 1 -> rock_thresh(Warped)
      [] ch = 2 -> color_thresh(Warped, DefaultThresh)

\* the world point <<x, y>> of the rectified pixel p at the current pose
PixelWorld(p) ==
    LET w == pix_to_world(<<2 * (ImgH - p[1])>>, <<ImgW - 2 * p[2]>>,
                          pos[1], pos[2], yaw, WorldSize, scale)
    IN  <<w[1][1], w[2][1]>>

\* the active pixels of channel ch's class that map to the world cell (y, x)
Hits(ch, y, x) == {p \in Pixels : ClassMask(ch)[p] = 1 /\ PixelWorld(p) = <<x, y>>}

GateOpen == (roll < 20 \/ roll > 3580) /\ (pitch < 20 \/ pitch > 3580)

Increase(c) == worldmap[c] - worldmap_before[c]

-----------------------------------------------------------------------------
(* Claims *)

\* C1: a call whose roll or pitch is outside the stability gate (the boundary
\* values 2.0 and 358 included) leaves every cell of the three world-map
\* channels as it was before the call.
C1_GateClosedKeepsWorldmap ==
    (calls > 0 /\ ~GateOpen) => worldmap = worldmap_before

\* C1 witness: a call at roll = 2.0 exactly, after an earlier call filled the map
C1_Witness ==
    /\ calls = 2
    /\ roll = 20 /\ pitch = 10
    /\ worldmap # ZeroMap
    /\ worldmap = worldmap_before
    /\ Len(nav_dists) > 0

\* C2 (as claimed): with the gate open, a cell's channel increases by 255 for
\* each active pixel of the class that maps to the cell (k pixels: k * 255).
C2_EachHitAdds ==
    (calls > 0 /\ GateOpen) =>
        \A c \in Cells : Increase(c) = 255 * Cardinality(Hits(c[3], c[1], c[2]))

\* C2 (amended): with the gate open, a cell's channel increases by exactly 255
\* when at least one active pixel of the class maps to the cell, however many
\* do, and is unchanged when none does.
C2_HitCellAddsOnce ==
    (calls > 0 /\ GateOpen) =>
        \A c \in Cells :
            Increase(c) = IF Hits(c[3], c[1], c[2]) # {} THEN 255 ELSE 0

\* C2 witness: two terrain pixels mapped to one cell, which gained 255
C2_Witness ==
    /\ calls > 0 /\ GateOpen
    /\ \E c \in Cells :
        /\ c[3] = 2
        /\ Cardinality(Hits(c[3], c[1], c[2])) >= 2
        /\ Increase(c) = 255

\* C4: after every call the overlay holds the current frame's obstacle, rock
\* and terrain masks times 255, and the navigation cues are the polar
\* conversion of the current frame's terrain and rock points, one entry per
\* active pixel.
C4_OutputsOfCurrentFrame ==
    calls > 0 =>
        /\ \A p \in Pixels : \A ch \in Channels :
                vision_image[p][ch] = 255 * ClassMask(ch)[p]
        /\ LET rc == rover_coords(ClassMask(2))
               rr == rover_coords(ClassMask(1))
           IN  /\ <<nav_dists, nav_angles>> = to_polar_coords(rc[1], rc[2])
               /\ <<rocks_dists, rocks_angles>> = to_polar_coords(rr[1], rr[2])
               /\ Len(nav_dists) = Cardinality({p \in Pixels : ClassMask(2)[p] = 1})
               /\ Len(nav_angles) = Len(nav_dists)
               /\ Len(rocks_dists) = Cardinality({p \in Pixels : ClassMask(1)[p] = 1})
               /\ Len(rocks_angles) = Len(rocks_dists)

\* C4 witness: a second call with the gate closed, on a frame without terrain
\* or rocks, after a call that saw both
C4_Witness ==
    /\ calls = 2
    /\ ~GateOpen
    /\ \E c \in Cells : c[3] = 2 /\ worldmap[c] > 0
    /\ \E c \in Cells : c[3] = 1 /\ worldmap[c] > 0
    /\ nav_dists = << >> /\ rocks_dists = << >>
    /\ \A p \in Pixels : vision_image[p][0] = 255

\* C5: no call lowers a world-map cell.
C5_WorldmapNeverDecreases ==
    \A c \in Cells : worldmap[c] >= worldmap_before[c]

\* C5 witness: terrain seen in a cell that held an obstacle count
C5_Witness ==
    /\ calls = 2
    /\ \E y \in 0 .. WorldSize - 1, x \in 0 .. WorldSize - 1 :
        /\ worldmap_before[<<y, x, 0>>] > 0
        /\ worldmap_before[<<y, x, 2>>] = 0
        /\ worldmap[<<y, x, 2>>] > 0

\* C6: a second run on the frame and pose of the first, the gate open in both,
\* from an all-zero map, leaves every cell at double its value after the first.
C6_RerunDoubles ==
    (calls = 2 /\ rerun) => \A c \in Cells : worldmap[c] = 2 * worldmap_before[c]

\* C6 witness: such a second run, on a frame with terrain and a rock
C6_Witness ==
    /\ calls = 2 /\ rerun
    /\ \E c \in Cells : c[3] = 2 /\ worldmap[c] = 510
    /\ \E c \in Cells : c[3] = 1 /\ worldmap[c] = 510

\* C10: every rectified pixel outside the camera's view is an obstacle pixel
\* and neither terrain nor rock; with the gate open its world cell gains an
\* obstacle increment, and gains in channels 1 and 2 only from in-view pixels.
C10_OutOfViewIsObstacle ==
    calls > 0 =>
        \A p \in Pixels \ InView :
            /\ Warped[p] = Black
            /\ vision_image[p] = [ch \in Channels |-> IF ch = 0 THEN 255 ELSE 0]
            /\ GateOpen =>
                LET x == PixelWorld(p)[1]
                    y == PixelWorld(p)[2]
                IN  /\ Increase(<<y, x, 0>>) >= 255
                    /\ \A ch \in {1, 2} :
                        Increase(<<y, x, ch>>) > 0 =>
                            \E q \in InView : q \in Hits(ch, y, x)

\* C10 witness: the out-of-view pixel is the only obstacle pixel of the frame
\* and its cell gained 255 in channel 0
C10_Witness ==
    /\ calls > 0 /\ GateOpen
    /\ \A q \in InView : img[q] # Black
    /\ \E p \in Pixels \ InView :
        Increase(<<PixelWorld(p)[2], PixelWorld(p)[1], 0>>) = 255

-----------------------------------------------------------------------------
(* Claims about the pure functions, under SpecFn *)

PixToWorldDone == fn_pc \in {"done_pix_to_world", "done_round_trip"}

\* the translated coordinates x'/scale + pos of the call's points, as
\* numerators over Den
Den == 2 * pw_in.scale
NumX(i) == rotate_pix(pw_in.xpix, pw_in.ypix, pw_in.yaw)[1][i] + Den * pw_in.xpos
NumY(i) == rotate_pix(pw_in.xpix, pw_in.ypix, pw_in.yaw)[2][i] + Den * pw_in.ypos

Pinned(t, world_size) == IF t < 0 THEN 0 ELSE IF t > world_size - 1 THEN world_size - 1 ELSE t

\* t is num / den with the fraction dropped
IsTruncated(t, num, den) ==
    IF num >= 0 THEN t >= 0 /\ t * den <= num /\ num < (t + 1) * den
    ELSE t <= 0 /\ t * den >= num /\ num > (t - 1) * den

\* t is an integer nearest to num / den
IsNearest(t, num, den) == 2 * Abs(num - t * den) <= den

Around(num, den) == -(Abs(num) \div den + 1) .. (Abs(num) \div den + 1)

\* C3: pix_to_world returns one world point per input point, both coordinates
\* within [0, world_size - 1], wherever the point projects.
C3_WorldPointsInBounds ==
    PixToWorldDone =>
        /\ Len(pw_out[1]) = Len(pw_in.xpix)
        /\ Len(pw_out[2]) = Len(pw_in.ypix)
        /\ \A i \in 1 .. Len(pw_out[1]) : pw_out[1][i] \in 0 .. pw_in.world_size - 1
        /\ \A i \in 1 .. Len(pw_out[2]) : pw_out[2][i] \in 0 .. pw_in.world_size - 1

\* C3 witness: a point that projects below the map in x and beyond it in y,
\* pinned to the two edges
C3_Witness ==
    /\ fn_pc = "done_pix_to_world"
    /\ \E i \in 1 .. Len(pw_out[1]) :
        /\ NumX(i) < -Den /\ pw_out[1][i] = 0
        /\ NumY(i) > pw_in.world_size * Den /\ pw_out[2][i] = pw_in.world_size - 1

\* C7 (as claimed): rover_coords then pix_to_world with yaw 0, position (0, 0)
\* and scale 1 gives back the rover-centric coordinates of every active pixel.
C7_RoundTripExact ==
    fn_pc = "done_round_trip" =>
        /\ Len(pw_out[1]) = Len(rc_out[1])
        /\ \A i \in 1 .. Len(rc_out[1]) :
            /\ 2 * pw_out[1][i] = rc_out[1][i]
            /\ 2 * pw_out[2][i] = rc_out[2][i]

\* a rover-centric coordinate (in half pixels) that is a whole number of
\* pixels within [0, world_size - 1]
WholeInMap(c2) == c2 % 2 = 0 /\ c2 >= 0 /\ c2 <= 2 * (pw_in.world_size - 1)

\* C7 (amended): the round trip gives one world point per active pixel and
\* gives back exactly each coordinate that is a whole number within
\* [0, world_size - 1]; any other coordinate comes back with its fraction
\* dropped and pinned to [0, world_size - 1].
C7_RoundTripWithinMap ==
    fn_pc = "done_round_trip" =>
        /\ Len(rc_out[1]) = Cardinality({p \in Pixels : rc_in[p] = 1})
        /\ Len(pw_out[1]) = Len(rc_out[1])
        /\ Len(pw_out[2]) = Len(rc_out[2])
        /\ \A i \in 1 .. Len(rc_out[1]) :
            /\ IF WholeInMap(rc_out[1][i])
               THEN 2 * pw_out[1][i] = rc_out[1][i]
               ELSE /\ 2 * pw_out[1][i] # rc_out[1][i]
                    /\ \E t \in Around(rc_out[1][i], 2) :
                        /\ IsTruncated(t, rc_out[1][i], 2)
                        /\ pw_out[1][i] = Pinned(t, pw_in.world_size)
            /\ IF WholeInMap(rc_out[2][i])
               THEN 2 * pw_out[2][i] = rc_out[2][i]
               ELSE /\ 2 * pw_out[2][i] # rc_out[2][i]
                    /\ \E t \in Around(rc_out[2][i], 2) :
                        /\ IsTruncated(t, rc_out[2][i], 2)
                        /\ pw_out[2][i] = Pinned(t, pw_in.world_size)

\* C7 witness: a mask of several active pixels, one coordinate given back
\* exactly and one not
C7_Witness ==
    /\ fn_pc = "done_round_trip"
    /\ Len(rc_out[1]) >= 2
    /\ \E i \in 1 .. Len(rc_out[1]) :
        WholeInMap(rc_out[1][i]) /\ 2 * pw_out[1][i] = rc_out[1][i]
    /\ \E i \in 1 .. Len(rc_out[2]) : 2 * pw_out[2][i] # rc_out[2][i]

\* C8 (as claimed): each world coordinate is the translated coordinate
\* rounded to the nearest integer, then clipped.
C8_RoundsToNearest ==
    PixToWorldDone =>
        \A i \in 1 .. Len(pw_in.xpix) :
            /\ \E t \in Around(NumX(i), Den) :
                IsNearest(t, NumX(i), Den) /\ pw_out[1][i] = Pinned(t, pw_in.world_size)
            /\ \E t \in Around(NumY(i), Den) :
                IsNearest(t, NumY(i), Den) /\ pw_out[2][i] = Pinned(t, pw_in.world_size)

\* C8 (amended): each world coordinate is the translated coordinate with its
\* fraction dropped (np.int_), then clipped:
\* xWorld = clip(int(x'/scale + pos.x), 0, world_size - 1), and so for y.
C8_DropsFraction ==
    PixToWorldDone =>
        \A i \in 1 .. Len(pw_in.xpix) :
            /\ \E t \in Around(NumX(i), Den) :
                IsTruncated(t, NumX(i), Den) /\ pw_out[1][i] = Pinned(t, pw_in.world_size)
            /\ \E t \in Around(NumY(i), Den) :
                IsTruncated(t, NumY(i), Den) /\ pw_out[2][i] = Pinned(t, pw_in.world_size)

\* C8 witness: a translated x inside the map whose fraction is above one half,
\* returned as the integer below it
C8_Witness ==
    /\ fn_pc = "done_pix_to_world"
    /\ \E i \in 1 .. Len(pw_in.xpix) :
        /\ NumX(i) > 0
        /\ 2 * (NumX(i) % Den) > Den
        /\ pw_out[1][i] * Den < NumX(i)
        /\ pw_out[1][i] < pw_in.world_size - 1

\* C9: with one threshold triple for both classifiers no pixel is active in
\* both masks, and a pixel with a channel at its threshold, or with channels
\* on both sides of their thresholds, is active in neither.
C9_TerrainObstacleDisjoint ==
    fn_pc = "done_thresh" =>
        \A p \in Pixels :
            LET v == th_in.img[p]
                t == th_in.rgb_thresh
            IN  /\ ~(th_out[1][p] = 1 /\ th_out[2][p] = 1)
                /\ (\E k \in 1 .. 3 : v[k] = t[k]) => (th_out[1][p] = 0 /\ th_out[2][p] = 0)
                /\ (\E j \in 1 .. 3, k \in 1 .. 3 : v[j] < t[j] /\ v[k] > t[k])
                        => (th_out[1][p] = 0 /\ th_out[2][p] = 0)

\* C9 witness: a frame with a terrain pixel, an obstacle pixel and a pixel at
\* the threshold that is in neither mask
C9_Witness ==
    /\ fn_pc = "done_thresh"
    /\ \E p \in Pixels : th_out[1][p] = 1
    /\ \E p \in Pixels : th_out[2][p] = 1
    /\ \E p \in Pixels :
        /\ \A k \in 1 .. 3 : th_in.img[p][k] = th_in.rgb_thresh[k]
        /\ th_out[1][p] = 0 /\ th_out[2][p] = 0

====
